---------------------------- MODULE Spec2Model ----------------------------
(***************************************************************************)
(* Model of the validation engine of bibtex-validator                      *)
(* (src/src/bibtex_validator/validator.py).                                *)
(*                                                                         *)
(* Text that the code inspects character by character (entry keys, the     *)
(* values of volume, pages, url and title) is a sequence of one-character  *)
(* strings.  Text that the code only compares for equality (macro names,   *)
(* journal names, field names) is a TLA+ string.                           *)
(***************************************************************************)
EXTENDS Integers, Sequences, FiniteSets, TLC

(***************************************************************************)
(* Static tables, validator.py lines 15-37.                                *)
(***************************************************************************)
JOURNALS_FIELDS ==
  [arxiv |-> <<"author", "title", "journal", "volume", "year">>,
   ral   |-> <<"author", "title", "journal", "volume", "number", "pages", "year">>,
   pami  |-> <<"author", "title", "journal", "volume", "number", "pages", "year">>,
   ijrr  |-> <<"author", "title", "journal", "volume", "number", "pages", "year">>,
   tro   |-> <<"author", "title", "journal", "volume", "number", "pages", "year">>,
   ar    |-> <<"author", "title", "journal", "volume", "pages", "year">>,
   tmlr  |-> <<"author", "title", "journal", "year">>]

MANDATORY_FIELDS ==
  [article       |-> <<"author", "title", "journal", "volume", "year">>,
   inproceedings |-> <<"author", "title", "booktitle", "year">>,
   phdthesis     |-> <<"author", "title", "school", "year">>,
   book          |-> <<"author", "title", "publisher", "year">>]

OPTIONAL_FIELDS ==
  [article       |-> <<"url", "codeurl", "videourl", "pages", "number", "abstract", "keywords">>,
   inproceedings |-> <<"url", "codeurl", "videourl", "abstract", "keywords">>,
   phdthesis     |-> <<"url", "keywords", "abstract">>,
   book          |-> <<"volume", "edition", "url", "keywords", "abstract">>]

(***************************************************************************)
(* Generic helpers.                                                        *)
(***************************************************************************)
Range(s) == {s[k] : k \in 1..Len(s)}

StartsWith(s, p) == Len(s) >= Len(p) /\ SubSeq(s, 1, Len(p)) = p

EndsWith(s, p) == Len(s) >= Len(p) /\ SubSeq(s, Len(s) - Len(p) + 1, Len(s)) = p

LowerCase == {"a", "b", "c", "d", "e", "f", "g", "h", "i", "j", "k", "l", "m",
              "n", "o", "p", "q", "r", "s", "t", "u", "v", "w", "x", "y", "z"}
UpperCase == {"A", "B", "C", "D", "E", "F", "G", "H", "I", "J", "K", "L", "M",
              "N", "O", "P", "Q", "R", "S", "T", "U", "V", "W", "X", "Y", "Z"}
Digits == {"0", "1", "2", "3", "4", "5", "6", "7", "8", "9"}

(* str.lower() changes a text exactly when the text has an upper-case letter *)
ChangedByLower(s) == \E k \in 1..Len(s) : s[k] \in UpperCase

(***************************************************************************)
(* The regular expressions of the checks.  re.match anchors the pattern at *)
(* the start of the text only: text after the matched prefix is ignored.   *)
(***************************************************************************)
(* line 165: re.match(r"[A-Za-z-]+[0-9]{4}[3A-Za-z-]+", entry.key) *)
KeyHeadClass == LowerCase \cup UpperCase \cup {"-"}
KeyTailClass == LowerCase \cup UpperCase \cup {"-", "3"}

(* the pattern matched against the whole key, as re.fullmatch would *)
KeyRegexFullMatch(key) ==
  \E h \in 1..Len(key) :
     /\ \A k \in 1..h : key[k] \in KeyHeadClass
     /\ h + 5 <= Len(key)
     /\ \A k \in (h + 1)..(h + 4) : key[k] \in Digits
     /\ \A k \in (h + 5)..Len(key) : key[k] \in KeyTailClass

KeyRegexMatch(key) ==
  \E h \in 1..Len(key) :
     /\ \A k \in 1..h : key[k] \in KeyHeadClass
     /\ h + 5 <= Len(key)
     /\ \A k \in (h + 1)..(h + 4) : key[k] \in Digits
     /\ key[h + 5] \in KeyTailClass

(* line 131: re.match(r"arXiv:\d{4}.\d{4,5}", volume); the dot is unescaped *)
ArxivPrefix == <<"a", "r", "X", "i", "v", ":">>

VolumeRegexMatch(v) ==
  /\ Len(v) >= 15
  /\ SubSeq(v, 1, 6) = ArxivPrefix
  /\ \A k \in 7..10 : v[k] \in Digits
  /\ v[11] # "\n"
  /\ \A k \in 12..15 : v[k] \in Digits

(* line 146: re.match(r"[0-9]+-[0-9]+", pages) *)
PagesRegexMatch(p) ==
  \E h \in 1..Len(p) :
     /\ \A k \in 1..h : p[k] \in Digits
     /\ h + 2 <= Len(p)
     /\ p[h + 1] = "-"
     /\ p[h + 2] \in Digits

(***************************************************************************)
(* The document.  A source document (the text handed to validate_bibtex)   *)
(* is a list of @string definitions and a list of entries.  A source field *)
(* has its key, the offset of its line from the entry's first line, the    *)
(* kind of its value ("bare": an identifier or number, "delim": a text in  *)
(* braces or quotes), the value text, and whether a delimited text is      *)
(* wrapped in a second pair of braces.  The entry's opening "@type{key,"   *)
(* is on offset 0 and its closing brace on offset close_off.               *)
(*                                                                         *)
(* bibtexparser (an external library) turns it into the parsed model the   *)
(* engine reads: line numbers are 0-based, a bare value that names a       *)
(* declared @string is replaced by that string's value, enclosing          *)
(* delimiters are removed, and entry.raw keeps the source text.            *)
(***************************************************************************)
PlainValue(v) == [cls |-> "str", key |-> "", value |-> v]

(* class BibTeXString, lines 61-72 *)
BibTeXString(key, value) == [cls |-> "BibTeXString", key |-> key, value |-> value]

(* BibTeXString.__eq__ compares the value; str compares the text *)
ValueEquals(fieldvalue, text) == fieldvalue.value = text

(* bib_database.strings_dict *)
StringsDict(strings) == {strings[k].key : k \in 1..Len(strings)}

StringValue(strings, name) ==
  strings[CHOOSE k \in 1..Len(strings) : strings[k].key = name].value

(* line 212: text2string = {s.value: s.key for s in strings}; the last wins *)
Text2StringKeys(strings) == {strings[k].value : k \in 1..Len(strings)}

Text2String(strings, text) ==
  LET hits == {k \in 1..Len(strings) : strings[k].value = text}
  IN  strings[CHOOSE k \in hits : \A m \in hits : m <= k].key

(* one line of entry.raw: the pieces of source text on it, left to right *)
RawLine(src, off) ==
  LET onLine == SelectSeq(src.fields, LAMBDA f : f.off = off)
      toks   == [k \in 1..Len(onLine) |->
                   [t |-> "field", kind |-> onLine[k].kind, key |-> onLine[k].key,
                    src |-> onLine[k].src, protected |-> onLine[k].protected]]
      nofield == [kind |-> "none", key |-> "", src |-> "", protected |-> FALSE]
      head   == IF off = 0 THEN <<[t |-> "head"] @@ nofield>> ELSE <<>>
      close  == IF off = src.close_off THEN <<[t |-> "close"] @@ nofield>> ELSE <<>>
  IN  head \o toks \o close

ParseValue(strings, f) ==
  IF f.kind = "bare" /\ f.src \in StringsDict(strings)
  THEN PlainValue(StringValue(strings, f.src))
  ELSE PlainValue(f.src)

ParseEntry(strings, src) ==
  [entry_type |-> src.entry_type,
   key        |-> src.key,
   start_line |-> src.start_line,
   raw        |-> [k \in 1..(src.close_off + 1) |-> RawLine(src, k - 1)],
   fields     |-> [k \in 1..Len(src.fields) |->
                    [key        |-> src.fields[k].key,
                     start_line |-> src.start_line + src.fields[k].off,
                     value      |-> ParseValue(strings, src.fields[k])]]]

(* line 206: bibtexparser.parse_string *)
ParseString(doc) ==
  [strings |-> doc.strings,
   entries |-> [k \in 1..Len(doc.entries) |-> ParseEntry(doc.strings, doc.entries[k])]]

(* entry_fields = [f.key for f in entry.fields], lines 98 and 176 *)
EntryFields(entry) == {entry.fields[k].key : k \in 1..Len(entry.fields)}

(* entry.fields_dict[key]: the last field with that key *)
FieldsDict(entry, key) ==
  LET hits == {k \in 1..Len(entry.fields) : entry.fields[k].key = key}
  IN  entry.fields[CHOOSE k \in hits : \A m \in hits : m <= k]

(* entry.raw.split("\n")[field.start_line - entry.start_line], lines 153, 219 *)
RawLineOf(entry, field) == entry.raw[field.start_line - entry.start_line + 1]

(* line 220: re.search(r"[\"{}]+", raw_line) finds a quote or a brace *)
HasDelimiter(line) ==
  \E k \in 1..Len(line) : line[k].t \in {"head", "close"} \/ line[k].kind = "delim"

(* line 221: re.search(r"=\s*([\w]+)", raw_line): the first assigned word *)
FirstAssignedWord(line) ==
  LET bare == {k \in 1..Len(line) : line[k].kind = "bare"}
  IN  line[CHOOSE k \in bare : \A m \in bare : k <= m].src

(* line 227: re.search(r"\"([\w\W]+)\"|{([\w\W]+)}", raw_line): the text     *)
(* between the first opening and the last closing delimiter of the line.  *)
(* It is a field's text only when that field holds the line's only         *)
(* delimiters; any other match spans field separators and is the text of   *)
(* no @string.                                                             *)
OpaqueKeys == {"author", "authors", "journal", "booktitle", "year", "number",
               "school", "publisher", "note"}

MatchedText(line) ==
  LET delims == {k \in 1..Len(line) : line[k].t \in {"head", "close"} \/ line[k].kind = "delim"}
  IN  IF Cardinality(delims) = 1
      THEN LET k == CHOOSE d \in delims : TRUE
           IN  IF line[k].t = "field" /\ line[k].key \in OpaqueKeys
               THEN {line[k].src} ELSE {}
      ELSE {}

(* line 154: re.search(r"{{[\w\W]+}}", raw_line) *)
HasDoubleBraces(line) == \E k \in 1..Len(line) : line[k].protected

Message(code, lineno, text) == [code |-> code, lineno |-> lineno, text |-> text]

(***************************************************************************)
(* Iteration over a Python set of str (lines 115 and 141).  The order is   *)
(* that of the hash table, fixed by the str hashes, and CPython draws the  *)
(* hash seed anew for every process: the order is the same within one      *)
(* process and unspecified across processes.  hashseed stands for the      *)
(* process's seed and StrHash for the hash it gives.                       *)
(***************************************************************************)
FieldNames == <<"author", "authors", "title", "journal", "booktitle", "volume",
                "number", "pages", "year", "url", "school", "publisher", "note",
                "codeurl", "videourl", "abstract", "keywords", "edition">>

HashModulus == Len(FieldNames) + 1

StrHash(name, seed) ==
  LET idx == CHOOSE k \in 1..Len(FieldNames) : FieldNames[k] = name
  IN  (idx * (1 + ((seed * 7) % (HashModulus - 1)))) % HashModulus

RECURSIVE SetIteration(_, _)
SetIteration(S, seed) ==
  IF S = {} THEN <<>>
  ELSE LET first == CHOOSE x \in S : \A y \in S : StrHash(x, seed) <= StrHash(y, seed)
       IN  <<first>> \o SetIteration(S \ {first}, seed)

(***************************************************************************)
(* check_fields, lines 93-158.                                             *)
(***************************************************************************)
InTables(entry) ==
  entry.entry_type \in DOMAIN MANDATORY_FIELDS /\ entry.entry_type \in DOMAIN OPTIONAL_FIELDS

(* lines 101-107 *)
RequiredFields(entry) ==
  IF /\ entry.entry_type = "article"
     /\ "journal" \in EntryFields(entry)
     /\ FieldsDict(entry, "journal").value.cls = "BibTeXString"
     /\ FieldsDict(entry, "journal").value.key \in DOMAIN JOURNALS_FIELDS
  THEN JOURNALS_FIELDS[FieldsDict(entry, "journal").value.key]
  ELSE MANDATORY_FIELDS[entry.entry_type]

(* the missing fields without the rule for the deprecated authors field *)
MissingFieldsAuthorsIgnored(entry) == Range(RequiredFields(entry)) \ EntryFields(entry)

(* lines 109-113 *)
MissingFields(entry) ==
  LET missing == Range(RequiredFields(entry)) \ EntryFields(entry)
  IN  IF "author" \in missing /\ "authors" \in EntryFields(entry)
      THEN missing \ {"author"} ELSE missing

(* lines 115-122 *)
MissingFieldErrors(entry, seed) ==
  LET order == SetIteration(MissingFields(entry), seed)
  IN  [k \in 1..Len(order) |->
         Message("E002", entry.start_line + 1, <<order[k]>> \o RequiredFields(entry))]

IsArxivPreprint(entry) == ValueEquals(FieldsDict(entry, "journal").value, "arXiv preprint")

(* lines 124-132 *)
ArxivErrors(entry) ==
  IF entry.entry_type = "article" /\ "journal" \in EntryFields(entry) /\ IsArxivPreprint(entry)
  THEN (IF "pages" \in EntryFields(entry)
        THEN <<Message("E008", entry.start_line + 1, <<>>)>> ELSE <<>>)
       \o
       (IF "number" \in EntryFields(entry)
        THEN <<Message("E009", entry.start_line + 1, <<>>)>> ELSE <<>>)
       \o
       (IF /\ "volume" \in EntryFields(entry)
           /\ ~VolumeRegexMatch(FieldsDict(entry, "volume").value.value)
        THEN <<Message("E006", FieldsDict(entry, "volume").start_line + 1, <<>>)>> ELSE <<>>)
  ELSE <<>>

(* lines 124-125, 134-138 *)
ArticleWarnings(entry) ==
  IF entry.entry_type = "article" /\ "journal" \in EntryFields(entry) /\ ~IsArxivPreprint(entry)
  THEN (IF "pages" \notin EntryFields(entry) /\ "pages" \notin Range(RequiredFields(entry))
        THEN <<Message("W002", entry.start_line + 1, <<>>)>> ELSE <<>>)
       \o
       (IF "number" \notin EntryFields(entry) /\ "number" \notin Range(RequiredFields(entry))
        THEN <<Message("W003", entry.start_line + 1, <<>>)>> ELSE <<>>)
  ELSE <<>>

(* lines 140-142 *)
IrrelevantFieldErrors(entry, seed) ==
  LET irrelevant == ((EntryFields(entry) \ Range(RequiredFields(entry)))
                       \ Range(OPTIONAL_FIELDS[entry.entry_type])) \ {"authors"}
      order == SetIteration(irrelevant, seed)
  IN  [k \in 1..Len(order) |->
         Message("E001", FieldsDict(entry, order[k]).start_line + 1, <<order[k]>>)]

(* lines 144-147 *)
PageRangeErrors(entry) ==
  IF /\ "pages" \in EntryFields(entry)
     /\ entry.entry_type # "inproceedings"
     /\ PagesRegexMatch(FieldsDict(entry, "pages").value.value)
  THEN <<Message("E007", FieldsDict(entry, "pages").start_line + 1, <<>>)>> ELSE <<>>

(* lines 149-150 *)
AuthorsWarnings(entry) ==
  IF "authors" \in EntryFields(entry)
  THEN <<Message("W005", FieldsDict(entry, "authors").start_line + 1, <<>>)>> ELSE <<>>

(* lines 152-156 *)
TitleWarnings(entry) ==
  IF "title" \in EntryFields(entry)
  THEN LET title == FieldsDict(entry, "title")
       IN  IF /\ ~HasDoubleBraces(RawLineOf(entry, title))
              /\ ChangedByLower(SubSeq(title.value.value, 2, Len(title.value.value)))
           THEN <<Message("W004", title.start_line + 1, <<>>)>> ELSE <<>>
  ELSE <<>>

check_fields(entry, seed) ==
  [errors   |-> (IF InTables(entry)
                 THEN MissingFieldErrors(entry, seed) \o ArxivErrors(entry)
                        \o IrrelevantFieldErrors(entry, seed)
                 ELSE <<>>)
                \o PageRangeErrors(entry),
   warnings |-> (IF InTables(entry) THEN ArticleWarnings(entry) ELSE <<>>)
                \o AuthorsWarnings(entry) \o TitleWarnings(entry),
   raised   |-> "none"]

(***************************************************************************)
(* check_bibtex_key, lines 161-168.                                        *)
(***************************************************************************)
check_bibtex_key(entry) ==
  [errors   |-> IF ~KeyRegexMatch(entry.key)
                THEN <<Message("E003", entry.start_line + 1, entry.key)>> ELSE <<>>,
   warnings |-> <<>>,
   raised   |-> "none"]

(***************************************************************************)
(* check_url, lines 171-197, and requests.head (an external library).      *)
(* The server's answer to the HEAD request is an input: a content-type, no *)
(* content-type header, or a failure of the connection.  requests refuses  *)
(* a URL without an http scheme before anything is sent.                   *)
(***************************************************************************)
PdfSuffix == <<".", "p", "d", "f">>
ProceedingsPrefix == <<"p", "r", "o", "c", "e", "e", "d", "i", "n", "g", "s", ":">>
HttpPrefix == <<"h", "t", "t", "p", ":", "/", "/">>
HttpsPrefix == <<"h", "t", "t", "p", "s", ":", "/", "/">>

Contains(s, p) == \E k \in 1..Len(s) : k + Len(p) - 1 <= Len(s) /\ SubSeq(s, k, k + Len(p) - 1) = p

(* the classes of requests.exceptions an exception is an instance of *)
ExceptionClasses ==
  [ConnectionError |-> {"ConnectionError", "RequestException"},
   SSLError        |-> {"SSLError", "ConnectionError", "RequestException"},
   ConnectTimeout  |-> {"ConnectTimeout", "ConnectionError", "Timeout", "RequestException"},
   ReadTimeout     |-> {"ReadTimeout", "Timeout", "RequestException"},
   MissingSchema   |-> {"MissingSchema", "RequestException"},
   InvalidSchema   |-> {"InvalidSchema", "RequestException"}]

NetworkFailures == {"ConnectionError", "SSLError", "ConnectTimeout", "ReadTimeout"}

Responses == {"application/pdf", "text/html", "no content-type"} \cup NetworkFailures

(* line 191: requests.head(url, timeout=3.0) *)
RequestsHead(url, response) ==
  IF StartsWith(url, HttpPrefix) \/ StartsWith(url, HttpsPrefix) THEN response
  ELSE IF Contains(url, <<":", "/", "/">>) THEN "InvalidSchema"
  ELSE "MissingSchema"

(* line 194: except (ConnectionError, ReadTimeout) *)
CaughtClasses == {"ConnectionError", "ReadTimeout"}

IsCaught(exception) == ExceptionClasses[exception] \cap CaughtClasses # {}

InvalidUrl(entry) == <<Message("E004", FieldsDict(entry, "url").start_line + 1, <<>>)>>

check_url(entry, check_pdf_download, response) ==
  LET none == [errors |-> <<>>, warnings |-> <<>>, raised |-> "none"]
  IN  IF "url" \notin EntryFields(entry)
      THEN [none EXCEPT !.warnings = <<Message("W001", entry.start_line + 1, <<>>)>>]
      ELSE LET url == FieldsDict(entry, "url").value.value
           IN  IF EndsWith(url, PdfSuffix) \/ StartsWith(url, ProceedingsPrefix) THEN none
               ELSE IF url = <<>> THEN [none EXCEPT !.errors = InvalidUrl(entry)]
               ELSE IF ~check_pdf_download THEN none
               ELSE LET got == RequestsHead(url, response)
                    IN  IF got \in DOMAIN ExceptionClasses
                        THEN IF IsCaught(got)
                             THEN [none EXCEPT !.errors = InvalidUrl(entry)]
                             ELSE [none EXCEPT !.raised = got]
                        ELSE IF got # "application/pdf"
                             THEN [none EXCEPT !.errors = InvalidUrl(entry)]
                             ELSE none

(***************************************************************************)
(* The macro-string resolver, lines 215-236, for the fields of one entry.  *)
(***************************************************************************)
IsVenueField(field) == field.key \in {"booktitle", "journal"}

(* lines 223-226 and 229-236: the message a field gives rise to, if any *)
ResolveErrors(strings, entry, field) ==
  LET raw_line == RawLineOf(entry, field)
  IN  IF ~IsVenueField(field) THEN <<>>
      ELSE IF ~HasDelimiter(raw_line)
      THEN IF FirstAssignedWord(raw_line) \notin StringsDict(strings)
           THEN <<Message("E000", field.start_line + 1, <<FirstAssignedWord(raw_line)>>)>>
           ELSE <<>>
      ELSE LET known == MatchedText(raw_line) \cap Text2StringKeys(strings)
           IN  IF known # {}
               THEN <<Message("E010", field.start_line + 1,
                              <<Text2String(strings, CHOOSE t \in known : TRUE)>>)>>
               ELSE <<>>

(* line 226: field.value = BibTeXString(name, strings_dict[name].value) *)
ResolveValue(strings, entry, field) ==
  LET raw_line == RawLineOf(entry, field)
  IN  IF /\ IsVenueField(field)
         /\ ~HasDelimiter(raw_line)
         /\ FirstAssignedWord(raw_line) \in StringsDict(strings)
      THEN BibTeXString(FirstAssignedWord(raw_line),
                        StringValue(strings, FirstAssignedWord(raw_line)))
      ELSE field.value

RECURSIVE Flatten(_)
Flatten(seqs) == IF seqs = <<>> THEN <<>> ELSE Head(seqs) \o Flatten(Tail(seqs))

ResolveEntry(strings, entry) ==
  [entry  |-> [entry EXCEPT !.fields =
                 [k \in 1..Len(entry.fields) |->
                    [entry.fields[k] EXCEPT !.value = ResolveValue(strings, entry, entry.fields[k])]]],
   errors |-> Flatten([k \in 1..Len(entry.fields) |-> ResolveErrors(strings, entry, entry.fields[k])])]

(***************************************************************************)
(* The aggregator, lines 238-248.                                          *)
(***************************************************************************)
PdfDownloadLimit == 25

(* line 238 *)
CheckPdfDownload(entries) == Len(entries) < PdfDownloadLimit

(* line 246: sorted(errors, key=lambda e: e.lineno), a stable sort *)
RECURSIVE InsertByLineno(_, _)
InsertByLineno(sorted, m) ==
  IF sorted = <<>> THEN <<m>>
  ELSE IF sorted[Len(sorted)].lineno <= m.lineno THEN Append(sorted, m)
  ELSE Append(InsertByLineno(SubSeq(sorted, 1, Len(sorted) - 1), m), sorted[Len(sorted)])

RECURSIVE SortedByLineno(_)
SortedByLineno(msgs) ==
  IF msgs = <<>> THEN <<>>
  ELSE InsertByLineno(SortedByLineno(SubSeq(msgs, 1, Len(msgs) - 1)), msgs[Len(msgs)])

(* a sort that is not stable: errors of one lineno come out reversed *)
SortErrorsTiesReversed(errs) ==
  SortedByLineno([k \in 1..Len(errs) |-> errs[Len(errs) + 1 - k]])

(* line 246 *)
SortErrors(errs) == SortedByLineno(errs)

(* a status that does not tell no errors from some *)
ErrorCodeNotStrict(errs) == IF Len(errs) >= 0 THEN 1 ELSE 0

(* line 248: 1 if len(errors) > 0 else 0 *)
ErrorCode(errs) == IF Len(errs) > 0 THEN 1 ELSE 0

ValidationResult(error_code, errs, warns) ==
  [error_code |-> error_code, errors |-> errs, warnings |-> warns]

(***************************************************************************)
(* Input documents.  The bounds of the model.                              *)
(***************************************************************************)
MaxEntries == 2
MaxHashSeed == 1

HashSeeds == 0..MaxHashSeed

(* the @string table of the documents, one definition a line, lines 0.. *)
Strings ==
  <<[key |-> "ral",   value |-> "IEEE Robotics and Automation Letters (RA-L)"],
    [key |-> "arxiv", value |-> "arXiv preprint"],
    [key |-> "tmlr",  value |-> "Trans. on Machine Learning Research (TMLR)"],
    [key |-> "icra",  value |-> "Proc. of ICRA"]>>

D(kind, src) == [kind |-> kind, src |-> src, protected |-> FALSE]

Defaults ==
  [author    |-> D("delim", "J. Doe"),
   authors   |-> D("delim", "J. Doe"),
   title     |-> D("delim", <<"A", " ", "s", "t", "u", "d", "y">>),
   journal   |-> D("delim", "Journal of Field Robotics"),
   booktitle |-> D("delim", "Proc. of Some Workshop"),
   volume    |-> D("delim", <<"1", "2">>),
   number    |-> D("delim", "3"),
   pages     |-> D("delim", <<"1", "-", "-", "9">>),
   year      |-> D("bare", "2020"),
   url       |-> D("delim", <<"h", "t", "t", "p", ":", "/", "/", "x", "/", "a", ".", "p", "d", "f">>),
   school    |-> D("delim", "Some University"),
   publisher |-> D("delim", "Some Press"),
   note      |-> D("delim", "to appear")]

CanonicalOrder == <<"author", "authors", "title", "journal", "booktitle", "volume",
                    "number", "pages", "year", "url", "school", "publisher", "note">>

GoodKey == <<"d", "o", "e", "2", "0", "2", "0", "r", "a", "l">>

JournalVariants ==
  {D("delim", "Journal of Field Robotics"), D("delim", "arXiv preprint"),
   D("bare", "ral"), D("bare", "arxiv"), D("bare", "tmlr"), D("bare", "jfr")}

(* an entry with the given fields, in the given order, each on a line of   *)
(* its own after the opening line, and the closing brace on the last line  *)
OnePerLine(entry_type, key, keys, descr) ==
  [entry_type |-> entry_type, key |-> key, start_line |-> 0, close_off |-> Len(keys) + 1,
   fields |-> [k \in 1..Len(keys) |-> [key |-> keys[k], off |-> k] @@ descr[keys[k]]]]

(* the same fields at chosen line offsets *)
Layout(entry_type, key, keys, offs, close_off, descr) ==
  [entry_type |-> entry_type, key |-> key, start_line |-> 0, close_off |-> close_off,
   fields |-> [k \in 1..Len(keys) |-> [key |-> keys[k], off |-> offs[k]] @@ descr[keys[k]]]]

Keys(S) == SelectSeq(CanonicalOrder, LAMBDA k : k \in S)

(* the entries one after the other below the @string table *)
RECURSIVE Place(_, _)
Place(shapes, line) ==
  IF shapes = <<>> THEN <<>>
  ELSE <<[Head(shapes) EXCEPT !.start_line = line]>>
         \o Place(Tail(shapes), line + Head(shapes).close_off + 1)

Document(shapes) == [strings |-> Strings, entries |-> Place(shapes, Len(Strings))]

(* entries of every type with every combination of the fields below *)
PresenceKeys == {"author", "authors", "title", "journal", "volume", "number", "pages", "year"}

PresenceShapes ==
  {OnePerLine(t, GoodKey, Keys(S \cup {"url"}), ("journal" :> j) @@ Defaults) :
     t \in {"article", "inproceedings", "book", "misc"},
     S \in SUBSET PresenceKeys,
     j \in JournalVariants}

(* an article whose journal field shares its line with other source text *)
LayoutShapes ==
  UNION {
    {Layout("article", GoodKey, <<"author", "title", "year", "journal", "volume", "url">>,
            offs, 6, ("journal" :> j) @@ Defaults) :
       offs \in {<<1, 2, 3, 4, 5, 5>>, <<1, 2, 3, 3, 4, 5>>, <<1, 2, 3, 4, 4, 5>>}}
    \cup
    {Layout("article", GoodKey, <<"journal", "author", "title", "volume", "year", "url">>,
            <<0, 1, 2, 3, 4, 5>>, 6, ("journal" :> j) @@ Defaults),
     Layout("article", GoodKey, <<"author", "title", "journal", "volume", "year", "url">>,
            <<0, 0, 0, 0, 0, 0>>, 0, ("journal" :> j) @@ Defaults),
     Layout("article", GoodKey, <<"author", "title", "volume", "year", "url", "journal">>,
            <<1, 2, 3, 4, 5, 6>>, 6, ("journal" :> j) @@ Defaults),
     Layout("article", GoodKey, <<"author", "title", "journal", "booktitle", "volume", "year", "url">>,
            <<1, 2, 3, 3, 4, 5, 6>>, 7,
            ("journal" :> j) @@ ("booktitle" :> D("bare", "icra")) @@ Defaults)}
    : j \in JournalVariants}

(* keys put together from a head, a run of digits and a tail, and the two *)
(* keys the specification names                                           *)
KeyPool ==
  {h \o d \o t :
     h \in {<<>>, <<"d", "o", "e">>, <<"d", "-", "e">>, <<"d", "_", "e">>},
     d \in {<<"2", "0", "2">>, <<"2", "0", "2", "0">>, <<"2", "0", "2", "0", "3">>,
            <<"2", "0", "2", "0", "1">>},
     t \in {<<>>, <<"r", "a", "l">>, <<"3", "d", "v">>, <<"r", "a", "l", "2">>,
            <<"r", "a", "l", "_", "2">>, <<"_", "r", "a", "l">>, <<"-">>}}
  \cup {<<"a", "b", "c", "1", "2", "3", "4", "d", "e", "f">>,
        <<"a", "b", "c", "1", "2", "d", "e", "f">>}

KeyShapes ==
  {OnePerLine(t, key, <<"author", "title", "year", "url">>, Defaults) :
     t \in {"misc", "phdthesis"}, key \in KeyPool}

VolumePool ==
  {<<"a", "r", "X", "i", "v", ":", "2", "0", "0", "1", ".", "0", "1", "2", "3", "4">>,
   <<"a", "r", "X", "i", "v", ":", "2", "0", "0", "1", ".", "0", "1", "2", "3">>,
   <<"a", "r", "X", "i", "v", ":", "2", "0", "0", "1", ".", "0", "1", "2">>,
   <<"a", "r", "X", "i", "v", ":", "2", "0", "0", "1", "x", "0", "1", "2", "3", "4">>,
   <<"a", "r", "X", "i", "v", ":", "2", "0", "0", "1", ".", "0", "1", "2", "3", "4", "5">>,
   <<"a", "r", "X", "i", "v", ":", "2", "0", "0", ".", "0", "1", "2", "3", "4">>,
   <<"1", "2">>}

PagesPool == {<<"1", "-", "-", "9">>, <<"1", "-", "9">>, <<"1", "2">>}

ArxivShapes ==
  {OnePerLine("article", GoodKey, Keys({"author", "title", "journal", "year", "url"} \cup S),
              ("journal" :> j) @@ ("volume" :> D("delim", v)) @@ ("pages" :> D("delim", p))
                @@ Defaults) :
     S \in SUBSET {"volume", "pages", "number"},
     j \in {D("delim", "arXiv preprint"), D("bare", "arxiv")},
     v \in VolumePool,
     p \in PagesPool}

UrlPool ==
  {<<"h", "t", "t", "p", ":", "/", "/", "x", "/", "a", ".", "p", "d", "f">>,
   <<"p", "r", "o", "c", "e", "e", "d", "i", "n", "g", "s", ":", "x">>,
   <<>>,
   <<"h", "t", "t", "p", ":", "/", "/", "x", "/", "a">>,
   <<"h", "t", "t", "p", "s", ":", "/", "/", "x", "/", "a">>,
   <<"x", ".", "o", "r", "g", "/", "a">>,
   <<"f", "t", "p", ":", "/", "/", "x", "/", "a">>}

TitlePool ==
  {D("delim", <<"A", " ", "s", "t", "u", "d", "y">>),
   D("delim", <<"A", " ", "S", "t", "u", "d", "y">>),
   [D("delim", <<"A", " ", "S", "t", "u", "d", "y">>) EXCEPT !.protected = TRUE]}

BooktitlePool == {D("delim", "Proc. of Some Workshop"), D("delim", "Proc. of ICRA"),
                  D("bare", "icra"), D("bare", "iros")}

UrlShapes ==
  {OnePerLine("inproceedings", GoodKey, Keys({"author", "title", "booktitle", "year"} \cup S),
              ("url" :> D("delim", u)) @@ ("title" :> t) @@ ("booktitle" :> b) @@ Defaults) :
     S \in SUBSET {"url"}, u \in UrlPool, t \in TitlePool, b \in BooktitlePool}

(* documents of several entries, whose diagnostics interleave when sorted *)
RemoteUrl == D("delim", <<"h", "t", "t", "p", ":", "/", "/", "x", "/", "a">>)

MultiPool ==
  {OnePerLine("article", GoodKey,
              <<"author", "title", "journal", "volume", "number", "pages", "year", "url">>,
              ("journal" :> D("bare", "ral")) @@ Defaults),
   OnePerLine("article", <<"d", "o", "e", "2", "0">>,
              <<"author", "title", "journal", "url">>,
              ("journal" :> D("bare", "jfr")) @@ ("url" :> RemoteUrl) @@ Defaults),
   OnePerLine("misc", GoodKey, <<"authors", "title", "year">>,
              ("title" :> D("delim", <<"A", " ", "S", "t", "u", "d", "y">>)) @@ Defaults),
   Layout("article", GoodKey,
          <<"note", "author", "title", "journal", "volume", "pages", "year", "url">>,
          <<0, 1, 2, 3, 4, 5, 6, 7>>, 8,
          ("journal" :> D("delim", "arXiv preprint")) @@ ("pages" :> D("delim", <<"1", "-", "9">>))
            @@ Defaults)}

MultiShapes == UNION {[1..n -> MultiPool] : n \in 0..MaxEntries}

(* a bibliography at the size from which the download check is skipped *)
BulkShapes ==
  {[k \in 1..n |->
      OnePerLine("inproceedings", GoodKey, <<"author", "title", "booktitle", "year", "url">>,
                 ("url" :> RemoteUrl) @@ Defaults)] : n \in {PdfDownloadLimit}}

Documents ==
  {Document(<<shape>>) :
     shape \in PresenceShapes \cup LayoutShapes \cup KeyShapes \cup ArxivShapes \cup UrlShapes}
  \cup {Document(shapes) : shapes \in MultiShapes \cup BulkShapes}

(* the url of the entry is one that check_url tries to download *)
IsRemote(entry) ==
  /\ "url" \in EntryFields(entry)
  /\ LET url == FieldsDict(entry, "url").value.value
     IN  /\ ~EndsWith(url, PdfSuffix)
         /\ ~StartsWith(url, ProceedingsPrefix)
         /\ url # <<>>

(* the servers' answers: one per entry, the same at every run *)
Answers(doc) ==
  LET entries == ParseString(doc).entries
  IN  IF \E k \in 1..Len(entries) : IsRemote(entries[k])
      THEN {[k \in 1..Len(entries) |-> r] : r \in Responses}
      ELSE {[k \in 1..Len(entries) |-> "application/pdf"]}

(***************************************************************************)
(* validate_bibtex, lines 200-248, run twice on the same text.             *)
(***************************************************************************)
VARIABLES bibtex_string, answers, hashseed, run, first,
          pc, entries, errors, warnings, i, last, e, w, raised, result

vars == <<bibtex_string, answers, hashseed, run, first,
          pc, entries, errors, warnings, i, last, e, w, raised, result>>

NoResult == ValidationResult(0, <<>>, <<>>)

(* lines 206-210: the state on entry to the first loop *)
Start(doc) ==
  /\ entries = ParseString(doc).entries
  /\ errors = <<>>
  /\ warnings = <<>>
  /\ i = 1
  /\ last = [fn |-> "none", i |-> 0]
  /\ e = <<>>
  /\ w = <<>>
  /\ raised = "none"
  /\ result = NoResult
  /\ pc = IF Len(doc.entries) = 0 THEN "return" ELSE "resolve"

Init ==
  /\ bibtex_string \in Documents
  /\ answers \in Answers(bibtex_string)
  /\ hashseed \in HashSeeds
  /\ run = 1
  /\ first = NoResult
  /\ Start(bibtex_string)

(* lines 215-236, one entry of the loop *)
resolve_strings ==
  /\ pc = "resolve"
  /\ LET r == ResolveEntry(bibtex_string.strings, entries[i])
     IN  /\ entries' = [entries EXCEPT ![i] = r.entry]
         /\ errors' = errors \o r.errors
         /\ e' = r.errors
  /\ w' = <<>>
  /\ last' = [fn |-> "resolve", i |-> i]
  /\ i' = IF i = Len(entries) THEN 1 ELSE i + 1
  /\ pc' = IF i = Len(entries) THEN "check_fields" ELSE "resolve"
  /\ UNCHANGED <<bibtex_string, answers, hashseed, run, first, warnings, raised, result>>

(* lines 242-244: the call of one validation function and what follows it *)
Call(fn, r, next) ==
  /\ e' = r.errors
  /\ w' = r.warnings
  /\ last' = [fn |-> fn, i |-> i]
  /\ IF r.raised # "none"
     THEN /\ raised' = r.raised
          /\ pc' = "raised"
          /\ UNCHANGED <<errors, warnings, i>>
     ELSE /\ errors' = errors \o r.errors
          /\ warnings' = warnings \o r.warnings
          /\ raised' = raised
          /\ IF next = "check_fields"
             THEN /\ i' = IF i = Len(entries) THEN i ELSE i + 1
                  /\ pc' = IF i = Len(entries) THEN "return" ELSE next
             ELSE /\ i' = i
                  /\ pc' = next
  /\ UNCHANGED <<bibtex_string, answers, hashseed, run, first, entries, result>>

run_check_fields ==
  /\ pc = "check_fields"
  /\ Call("check_fields", check_fields(entries[i], hashseed), "check_bibtex_key")

run_check_bibtex_key ==
  /\ pc = "check_bibtex_key"
  /\ Call("check_bibtex_key", check_bibtex_key(entries[i]), "check_url")

run_check_url ==
  /\ pc = "check_url"
  /\ Call("check_url", check_url(entries[i], CheckPdfDownload(entries), answers[i]), "check_fields")

(* lines 246-248 *)
sort_and_return ==
  /\ pc = "return"
  /\ errors' = SortErrors(errors)
  /\ result' = ValidationResult(ErrorCode(errors'), errors', warnings)
  /\ pc' = "done"
  /\ UNCHANGED <<bibtex_string, answers, hashseed, run, first, entries, warnings, i, last, e, w, raised>>

(* validate_bibtex is called again on the same text, in this process or in *)
(* another one                                                             *)
validate_again ==
  /\ pc = "done"
  /\ run = 1
  /\ run' = 2
  /\ first' = result
  /\ hashseed' \in HashSeeds
  /\ entries' = ParseString(bibtex_string).entries
  /\ errors' = <<>>
  /\ warnings' = <<>>
  /\ i' = 1
  /\ last' = [fn |-> "none", i |-> 0]
  /\ e' = <<>>
  /\ w' = <<>>
  /\ raised' = "none"
  /\ result' = NoResult
  /\ pc' = IF Len(bibtex_string.entries) = 0 THEN "return" ELSE "resolve"
  /\ UNCHANGED <<bibtex_string, answers>>

Next ==
  \/ resolve_strings
  \/ run_check_fields
  \/ run_check_bibtex_key
  \/ run_check_url
  \/ sort_and_return
  \/ validate_again

Spec == Init /\ [][Next]_vars

(***************************************************************************)
(* Properties.  After a step of the engine, last names the call that was   *)
(* made and the entry it was made on, and e and w are what it returned.    *)
(***************************************************************************)
Codes(msgs) == {msgs[k].code : k \in 1..Len(msgs)}

(* how many E002 of the sequence name the field *)
MissingReports(msgs, field) ==
  Cardinality({k \in 1..Len(msgs) : msgs[k].code = "E002" /\ msgs[k].text[1] = field})

(* how many E000 of the sequence are at the line *)
UndefinedReports(msgs, lineno) ==
  Cardinality({k \in 1..Len(msgs) : msgs[k].code = "E000" /\ msgs[k].lineno = lineno})

Called(fn) == last.fn = fn

Checked == entries[last.i]

LineOf(entry, key) == FieldsDict(entry, key).start_line + 1

(* C1: the result has status fail (error_code 1) exactly when its errors   *)
(* are non-empty and status pass (error_code 0) otherwise, whatever the    *)
(* number of warnings.                                                     *)
C1_StatusFailIffErrors ==
  pc = "done" =>
    /\ result.error_code \in {0, 1}
    /\ result.error_code = 1 <=> Len(result.errors) > 0

C1_Witness_PassWithWarnings ==
  /\ pc = "done"
  /\ result.error_code = 0
  /\ Len(result.warnings) > 0

(* the entry a source line belongs to *)
EntryAt(lineno) ==
  CHOOSE k \in 1..Len(entries) :
    /\ entries[k].start_line + 1 <= lineno
    /\ lineno <= entries[k].start_line + Len(entries[k].raw)

(* the place of a diagnostic in the emission order: the resolver's before  *)
(* all others, then by entry, then by check                                *)
EmissionKey(m) ==
  IF m.code \in {"E000", "E010"} THEN <<0, 0, 0>>
  ELSE <<1, EntryAt(m.lineno),
         IF m.code = "E003" THEN 2 ELSE IF m.code \in {"E004", "W001"} THEN 3 ELSE 1>>

KeyLeq(a, b) ==
  \/ a[1] < b[1]
  \/ a[1] = b[1] /\ a[2] < b[2]
  \/ a[1] = b[1] /\ a[2] = b[2] /\ a[3] <= b[3]

InEmissionOrder(msgs) ==
  \A a, b \in 1..Len(msgs) : a < b => KeyLeq(EmissionKey(msgs[a]), EmissionKey(msgs[b]))

AtLine(msgs, lineno) == SelectSeq(msgs, LAMBDA m : m.lineno = lineno)

StableSortOf(out, in) ==
  /\ Len(out) = Len(in)
  /\ \A a, b \in 1..Len(out) : a < b => out[a].lineno <= out[b].lineno
  /\ \A k \in 1..Len(in) : AtLine(out, in[k].lineno) = AtLine(in, in[k].lineno)

(* C2: the errors of the result are the emitted errors ordered by          *)
(* non-decreasing lineno, errors of one lineno in the order of emission    *)
(* (the resolver's first, then entry by entry, field-presence, key-format, *)
(* reference-link); the warnings of the result are the emitted warnings in *)
(* the order of emission.                                                  *)
C2_ErrorsStablySortedWarningsAsEmitted ==
  [][(pc = "return" /\ pc' = "done") =>
       /\ StableSortOf(result'.errors, errors)
       /\ result'.warnings = warnings
       /\ InEmissionOrder(errors)
       /\ InEmissionOrder(warnings)]_vars

C2_Witness_SortMovesErrorsNotWarnings ==
  /\ pc = "done"
  /\ \E a, b \in 1..Len(result.errors) :
       /\ a < b
       /\ result.errors[a].code = "E003" /\ result.errors[b].code = "E000"
  /\ \E a, b \in 1..Len(result.errors) :
       /\ a < b
       /\ result.errors[a].lineno = result.errors[b].lineno
       /\ result.errors[a].code = "E002" /\ result.errors[b].code = "E003"
  /\ \E a, b \in 1..Len(result.warnings) :
       a < b /\ result.warnings[a].lineno > result.warnings[b].lineno

(* C3: every diagnostic has the lineno of what triggered it: the entry's   *)
(* start line for a defect of the entry (a missing field, the key, a       *)
(* missing url, pages or number), the field's line for a defect of a field *)
(* that is present (its value, or its being there).                        *)
TriggerField(m) ==
  CASE m.code = "E001" -> m.text[1]
    [] m.code = "E004" -> "url"
    [] m.code = "E006" -> "volume"
    [] m.code \in {"E007", "E008"} -> "pages"
    [] m.code = "E009" -> "number"
    [] m.code = "W004" -> "title"
    [] m.code = "W005" -> "authors"

AtTriggerLine(entry, m) ==
  IF m.code \in {"E002", "E003", "W001", "W002", "W003"}
  THEN m.lineno = entry.start_line + 1
  ELSE IF m.code \in {"E000", "E010"}
  THEN \E k \in 1..Len(entry.fields) :
         IsVenueField(entry.fields[k]) /\ m.lineno = entry.fields[k].start_line + 1
  ELSE m.lineno = LineOf(entry, TriggerField(m))

C3_LinenoOfTrigger ==
  last.fn # "none" => \A m \in Range(e) \cup Range(w) : AtTriggerLine(Checked, m)

(* C4: when the url is one check_url tries to download and the HEAD        *)
(* request fails, whatever the failure, check_url returns exactly one E004 *)
(* at the url field's line, and no failure leaves validate_bibtex as an    *)
(* exception.                                                              *)
C4_RequestFailuresRecovered ==
  /\ pc # "raised"
  /\ (/\ Called("check_url")
      /\ IsRemote(Checked)
      /\ CheckPdfDownload(entries)
      /\ RequestsHead(FieldsDict(Checked, "url").value.value, answers[last.i])
           \in DOMAIN ExceptionClasses)
     => e = <<Message("E004", LineOf(Checked, "url"), <<>>)>>

(* C5: a second run on the same document, the servers answering the same,  *)
(* returns the result of the first: the same status, errors and warnings   *)
(* in the same order.                                                      *)
C5_SecondRunSameResult ==
  (pc = "done" /\ run = 2) => result = first

(* the required set as the claim resolves it *)
NamesKnownVenue(entry) ==
  /\ entry.entry_type = "article"
  /\ "journal" \in EntryFields(entry)
  /\ FieldsDict(entry, "journal").value.cls = "BibTeXString"
  /\ FieldsDict(entry, "journal").value.key \in
       {"arxiv", "ral", "pami", "ijrr", "tro", "ar", "tmlr"}

ResolvedRequired(entry) ==
  IF NamesKnownVenue(entry)
  THEN Range(JOURNALS_FIELDS[FieldsDict(entry, "journal").value.key])
  ELSE IF entry.entry_type = "article"
  THEN {"author", "title", "journal", "volume", "year"}
  ELSE Range(MANDATORY_FIELDS[entry.entry_type])

ExpectedMissing(entry) ==
  {k \in ResolvedRequired(entry) :
     /\ k \notin EntryFields(entry)
     /\ ~(k = "author" /\ "authors" \in EntryFields(entry))}

(* C6: for an entry whose type is in the requirement table, check_fields   *)
(* returns exactly one E002, at the entry's start line, for each key of    *)
(* the resolved required set that is no field of the entry (author aside   *)
(* when the entry has authors), and no other E002.                         *)
C6_OneE002PerMissingField ==
  (Called("check_fields") /\ InTables(Checked)) =>
    /\ \A m \in Range(e) : m.code = "E002" => m.lineno = Checked.start_line + 1
    /\ \A k \in Range(FieldNames) :
         MissingReports(e, k) = IF k \in ExpectedMissing(Checked) THEN 1 ELSE 0
    /\ \A m \in Range(e) : m.code = "E002" => m.text[1] \in Range(FieldNames)

C6_Witness_VenueSetAndAuthors ==
  /\ Called("check_fields")
  /\ NamesKnownVenue(Checked)
  /\ FieldsDict(Checked, "journal").value.key = "ral"
  /\ "authors" \in EntryFields(Checked)
  /\ "author" \notin EntryFields(Checked)
  /\ {e[k].text[1] : k \in {n \in 1..Len(e) : e[n].code = "E002"}} = {"number", "pages"}

(* C7: the resolver, for a journal or booktitle field assigned a bare      *)
(* identifier: undeclared, exactly one E000 at the field's line and the    *)
(* value unchanged; declared, no E000 and the value replaced by the macro  *)
(* reference of that name and declared value.  No other field is changed.  *)
C7_BareVenueResolved ==
  Called("resolve") =>
    LET source == bibtex_string.entries[last.i]
        parsed == ParseString(bibtex_string).entries[last.i]
    IN  \A k \in 1..Len(source.fields) :
          LET f    == source.fields[k]
              line == parsed.fields[k].start_line + 1
          IN  IF f.key \in {"journal", "booktitle"} /\ f.kind = "bare"
              THEN IF f.src \notin StringsDict(bibtex_string.strings)
                   THEN /\ UndefinedReports(e, line) = 1
                        /\ Message("E000", line, <<f.src>>) \in Range(e)
                        /\ Checked.fields[k].value = parsed.fields[k].value
                   ELSE /\ UndefinedReports(e, line) = 0
                        /\ Checked.fields[k].value
                             = BibTeXString(f.src, StringValue(bibtex_string.strings, f.src))
              ELSE f.key \notin {"journal", "booktitle"}
                     => Checked.fields[k].value = parsed.fields[k].value

(* the format of a key: letters or hyphens, 4 digits, then letters, hyphens *)
(* or the digit 3, and nothing else                                        *)
KeyHasValidFormat(key) ==
  \E h \in 1..Len(key) :
     /\ \A k \in 1..h : key[k] \in LowerCase \cup UpperCase \cup {"-"}
     /\ Len(key) >= h + 5
     /\ \A k \in (h + 1)..(h + 4) : key[k] \in Digits
     /\ \A k \in (h + 5)..Len(key) : key[k] \in LowerCase \cup UpperCase \cup {"-", "3"}

KeyBeginsWithValidFormat(key) ==
  \E n \in 1..Len(key) : KeyHasValidFormat(SubSeq(key, 1, n))

KeyFormatError(entry) == <<Message("E003", entry.start_line + 1, entry.key)>>

(* C8, as stated: the key-format check returns exactly one E003, at the    *)
(* entry's start line, for a key that does not have the valid format, and  *)
(* nothing for a key that has it.                                          *)
C8_E003IffKeyFormatWrong ==
  Called("check_bibtex_key") =>
    e = IF KeyHasValidFormat(Checked.key) THEN <<>> ELSE KeyFormatError(Checked)

(* C8, amended: the key-format check returns exactly one E003, at the      *)
(* entry's start line, for a key that does not begin with a text of the    *)
(* valid format, and nothing for a key that begins with one, whatever      *)
(* follows it; abc1234def passes and abc12def fails.                       *)
C8_E003IffNoValidPrefix ==
  Called("check_bibtex_key") =>
    /\ e = IF KeyBeginsWithValidFormat(Checked.key) THEN <<>> ELSE KeyFormatError(Checked)
    /\ Checked.key = <<"a", "b", "c", "1", "2", "3", "4", "d", "e", "f">> => e = <<>>
    /\ Checked.key = <<"a", "b", "c", "1", "2", "d", "e", "f">> => e = KeyFormatError(Checked)
    /\ w = <<>>

C8_Witness_TextAfterValidPrefix ==
  /\ Called("check_bibtex_key")
  /\ Checked.key = <<"d", "o", "e", "2", "0", "2", "0", "r", "a", "l", "_", "2">>
  /\ ~KeyHasValidFormat(Checked.key)
  /\ e = <<>>

IsArxivArticle(entry) ==
  /\ entry.entry_type = "article"
  /\ "journal" \in EntryFields(entry)
  /\ FieldsDict(entry, "journal").value.value = "arXiv preprint"

(* C9: for an article that is not an arXiv preprint, check_fields returns  *)
(* W002 exactly when the entry has no pages field and pages is not         *)
(* required, and W003 exactly when it has no number field and number is    *)
(* not required; for an arXiv preprint it returns neither.                 *)
C9_PagesNumberWarnings ==
  (Called("check_fields") /\ Checked.entry_type = "article") =>
    IF IsArxivArticle(Checked)
    THEN Codes(w) \cap {"W002", "W003"} = {}
    ELSE /\ "W002" \in Codes(w) <=>
              ("pages" \notin EntryFields(Checked) /\ "pages" \notin ResolvedRequired(Checked))
         /\ "W003" \in Codes(w) <=>
              ("number" \notin EntryFields(Checked) /\ "number" \notin ResolvedRequired(Checked))

(* the pattern of the claim: arXiv:, 4 digits, a dot, 4 to 5 digits *)
VolumeHasArxivPattern(v) ==
  /\ Len(v) >= 15
  /\ SubSeq(v, 1, 6) = ArxivPrefix
  /\ \A k \in 7..10 : v[k] \in Digits
  /\ v[11] = "."
  /\ \A k \in 12..15 : v[k] \in Digits

(* C10: for an arXiv preprint article with a volume field, check_fields    *)
(* returns E006, at the volume field's line, exactly when the volume does  *)
(* not match arXiv:, 4 digits, a dot, 4 to 5 digits.                       *)
C10_E006IffVolumePatternWrong ==
  (Called("check_fields") /\ IsArxivArticle(Checked) /\ "volume" \in EntryFields(Checked)) =>
    /\ "E006" \in Codes(e) <=> ~VolumeHasArxivPattern(FieldsDict(Checked, "volume").value.value)
    /\ \A m \in Range(e) : m.code = "E006" => m.lineno = LineOf(Checked, "volume")

=============================================================================
